---- MODULE Spec2Model ----
(***************************************************************************)
(* The command-language interpreter of LeeHongJun123/Program-Translation.   *)
(* The repository holds three variants of the same REPL:                    *)
(*   "mini"   src/Mini_Project.js     regex tokenizer, five command shapes  *)
(*   "dfa"    src/unnamed/part_000    DFA tokenizer, LL(1) table parser     *)
(*   "basic"  src/unnamed/part_001    regex tokenizer, create/delete/exit   *)
(* A session runs one variant.  An input line is a sequence of atoms: an    *)
(* atom is one whitespace character " ", one dot ".", one other non-word    *)
(* character "-", or a maximal run of word characters (\w+) such as         *)
(* "create".  No two runs are adjacent in a line, so the decomposition of a *)
(* line into atoms is unique.  Texts (token values, words) are strings,     *)
(* built by concatenating the atoms they cover.                             *)
(***************************************************************************)
EXTENDS Integers, Sequences, FiniteSets, TLC

VARIABLES
    variant,        \* which source file runs: "mini", "dfa" or "basic"
    pc,             \* "prompt": readline.question is waiting for a line;
                    \* "callback": a line was delivered, the callback runs next;
                    \* "closed": readline.close() was called;
                    \* "crashed": an exception left the callback uncaught
    line,           \* the input handed to the callback (atoms)
    parsingTable,   \* the PARSING_TABLE object of part_000 (mutable in JS)
    pending,        \* file operations started whose callback has not run yet
    lexer           \* what the last tokenize call observed on its own left in
                    \* its locals (kept by SpecTokenize only)

vars == <<variant, pc, line, parsingTable, pending, lexer>>

---------------------------------------------------------------------------
(* Bounds of the input space                                                *)

\* most words of a line whose words are separated by single spaces
MaxWords == 6
\* most words of a line with arbitrary separators, or with padding
MaxOddWords == 3
\* most file operations outstanding at once
MaxPending == 2

---------------------------------------------------------------------------
(* Characters and texts                                                     *)

Space == " "
Dot == "."
Punct == "-"

\* \s of the regular expressions
IsSpace(a) == a = Space

\* a maximal run of \w characters
IsWordRun(a) == a \notin {Space, Dot, Punct}

\* the value JavaScript yields for a missing array element or property
Undefined == "<undefined>"

RECURSIVE Concat(_)
\* the text covered by a sequence of atoms
Concat(atoms) ==
    IF atoms = <<>> THEN "" ELSE Head(atoms) \o Concat(Tail(atoms))

RECURSIVE Reverse(_)
\* Array.prototype.reverse
Reverse(s) ==
    IF s = <<>> THEN <<>> ELSE Append(Reverse(Tail(s)), Head(s))

\* String.prototype.toLowerCase on a run of word characters of the vocabulary
ToLowerCaseRun(a) ==
    IF a = "EXIT" THEN "exit" ELSE a

RECURSIVE TrimLeft(_)
TrimLeft(input) ==
    IF input # <<>> /\ IsSpace(Head(input)) THEN TrimLeft(Tail(input)) ELSE input

\* String.prototype.trim
Trim(input) == Reverse(TrimLeft(Reverse(TrimLeft(input))))

\* input.trim().toLowerCase() === "exit"
IsExitLine(input) ==
    LET t == Trim(input)
    IN  Len(t) = 1 /\ IsWordRun(t[1]) /\ ToLowerCaseRun(t[1]) = "exit"

---------------------------------------------------------------------------
(* Input lines                                                              *)

\* first words: the five keywords, an upper-case keyword, an unknown
\* command, and a word that is a key of the DFA's START row
HeadWords ==
    { <<"create">>, <<"delete">>, <<"copy">>, <<"rename">>, <<"exit">>,
      <<"EXIT">>, <<"launch">>, <<"default">> }

\* later words: the marker, the connector, a file name with an extension,
\* and a keyword
TailWords ==
    { <<"file">>, <<"to">>, <<"a", ".", "txt">>, <<"create">> }

Separators == {Space, Dot, Punct}

RECURSIVE PlainLines(_)
\* lines of exactly n words separated by single spaces
PlainLines(n) ==
    IF n = 0 THEN {<<>>}
    ELSE IF n = 1 THEN HeadWords
    ELSE { l \o <<Space>> \o w : l \in PlainLines(n - 1), w \in TailWords }

RECURSIVE OddLines(_)
\* lines of exactly n words separated by one space, dot or other character
OddLines(n) ==
    IF n = 0 THEN {<<>>}
    ELSE IF n = 1 THEN HeadWords
    ELSE { l \o <<s>> \o w :
             l \in OddLines(n - 1), s \in Separators, w \in TailWords }

\* lines with leading and/or trailing whitespace
PaddedLines ==
    UNION { { <<Space>> \o l, l \o <<Space>>, <<Space>> \o l \o <<Space>> } :
              l \in UNION { PlainLines(n) : n \in 0..MaxOddWords } }

Lines ==
    UNION { PlainLines(n) : n \in 0..MaxWords }
      \cup UNION { OddLines(n) : n \in 0..MaxOddWords }
      \cup PaddedLines

\* the lines considered while a file operation is outstanding (a bound of
\* the input space: the code reads any line at any time)
BusyLines ==
    { <<"create", Space, "file", Space, "a", ".", "txt">>,
      <<"delete", Space, "file", Space, "a", ".", "txt">>,
      <<"create", Space, "a", ".", "txt">>,
      <<"exit">> }

---------------------------------------------------------------------------
(* Tokens                                                                   *)

\* TOKEN_TYPES of the three files
TOKEN_TYPES ==
    [KEYWORD |-> "KEYWORD", FILENAME |-> "FILENAME", TO |-> "TO", EOF |-> "EOF"]

Token(type, value) == [type |-> type, value |-> value]

\* tokens[i].value of the regex variants: a TypeError when tokens[i] is missing
\* tokens[i]?.value of part_000: undefined when tokens[i] is missing
ValueAt(tokens, i) ==
    IF i + 1 <= Len(tokens) THEN tokens[i + 1].value ELSE Undefined

---------------------------------------------------------------------------
(* Regex tokenizer of Mini_Project.js and part_001                          *)

RECURSIVE RegexMatches(_, _)
\* the successive matches of /\b(\w+\.\w+|\w+)\b/g from atom i on: a run of
\* word characters, taken with ".run" when a dot and a run follow it
RegexMatches(input, i) ==
    IF i > Len(input) THEN <<>>
    ELSE IF ~IsWordRun(input[i]) THEN RegexMatches(input, i + 1)
    ELSE IF i + 2 <= Len(input) /\ input[i + 1] = Dot /\ IsWordRun(input[i + 2])
         THEN <<input[i] \o Dot \o input[i + 2]>> \o RegexMatches(input, i + 3)
         ELSE <<input[i]>> \o RegexMatches(input, i + 1)

\* the type Mini_Project.js gives a matched value
TypeMini(value) ==
    IF value \in {"create", "delete", "exit", "rename", "copy"}
    THEN TOKEN_TYPES.KEYWORD
    ELSE IF value = "to" THEN TOKEN_TYPES.TO
    ELSE TOKEN_TYPES.FILENAME

\* the type part_001 gives a matched value
TypeBasic(value) ==
    IF value \in {"create", "delete", "exit"}
    THEN TOKEN_TYPES.KEYWORD
    ELSE TOKEN_TYPES.FILENAME

\* tokenize of Mini_Project.js
tokenizeMini(input) ==
    LET m == RegexMatches(input, 1)
    IN  [k \in 1..Len(m) |-> Token(TypeMini(m[k]), m[k])]

\* tokenize of part_001
tokenizeBasic(input) ==
    LET m == RegexMatches(input, 1)
    IN  [k \in 1..Len(m) |-> Token(TypeBasic(m[k]), m[k])]

---------------------------------------------------------------------------
(* DFA tokenizer of part_000                                                *)

DFA_STATES ==
    [START |-> "START", KEYWORD |-> "KEYWORD", FILENAME |-> "FILENAME",
     TO |-> "TO", ERROR |-> "ERROR"]

\* DFA_TRANSITIONS; tokenize reads its START row only (it tests the words
\* "file" and "to" itself in the other states)
DFA_TRANSITIONS ==
    [START |-> [create |-> DFA_STATES.KEYWORD, delete |-> DFA_STATES.KEYWORD,
                exit |-> DFA_STATES.KEYWORD, copy |-> DFA_STATES.KEYWORD,
                rename |-> DFA_STATES.KEYWORD, default |-> DFA_STATES.FILENAME],
     KEYWORD |-> [file |-> DFA_STATES.START],
     FILENAME |-> [to |-> DFA_STATES.TO],
     TO |-> [file |-> DFA_STATES.FILENAME]]

RECURSIVE SplitFrom(_, _, _, _)
\* input.split(/\s+/): the pieces between the maximal whitespace runs, the
\* empty pieces before a leading and after a trailing run included
SplitFrom(input, i, cur, inRun) ==
    IF i > Len(input) THEN <<cur>>
    ELSE IF IsSpace(input[i])
         THEN IF inRun THEN SplitFrom(input, i + 1, cur, TRUE)
              ELSE <<cur>> \o SplitFrom(input, i + 1, "", TRUE)
         ELSE SplitFrom(input, i + 1, cur \o input[i], FALSE)

Split(input) == SplitFrom(input, 1, "", FALSE)

\* one iteration of the for loop of tokenize: the new state and the type.
\* DFA_TRANSITIONS[state][word] is truthy for the own keys of the row (the
\* input vocabulary holds no property name of Object.prototype)
DfaStep(state, word) ==
    IF state = DFA_STATES.START
    THEN IF word \in DOMAIN DFA_TRANSITIONS[state]
         THEN [state |-> DFA_TRANSITIONS[state][word], type |-> TOKEN_TYPES.KEYWORD]
         ELSE [state |-> DFA_TRANSITIONS[state].default, type |-> TOKEN_TYPES.FILENAME]
    ELSE IF state = DFA_STATES.KEYWORD
    THEN IF word = "file"
         THEN [state |-> DFA_STATES.START, type |-> TOKEN_TYPES.KEYWORD]
         ELSE [state |-> DFA_STATES.ERROR, type |-> Undefined]
    ELSE IF state = DFA_STATES.FILENAME
    THEN [state |-> state, type |-> TOKEN_TYPES.FILENAME]
    ELSE IF state = DFA_STATES.TO
    THEN IF word = "to"
         THEN [state |-> DFA_STATES.TO, type |-> TOKEN_TYPES.TO]
         ELSE [state |-> DFA_STATES.ERROR, type |-> Undefined]
    ELSE [state |-> state, type |-> Undefined]

RECURSIVE DfaRun(_, _, _, _)
\* the for loop of tokenize and the EOF token pushed after it; threw is TRUE
\* when the loop reached the ERROR state (throw new Error(`Invalid token:
\* ${word}`)), and message then holds the pieces of the error's message;
\* state is the value of the local state as the call ends
DfaRun(words, i, state, tokens) ==
    IF i > Len(words)
    THEN [threw |-> FALSE, tokens |-> Append(tokens, Token(TOKEN_TYPES.EOF, "")),
          message |-> <<>>, state |-> state]
    ELSE LET step == DfaStep(state, words[i])
         IN  IF step.state = DFA_STATES.ERROR
             THEN [threw |-> TRUE, tokens |-> <<>>,
                   message |-> <<"Invalid token: ", words[i]>>,
                   state |-> step.state]
             ELSE DfaRun(words, i + 1, step.state,
                         Append(tokens, Token(step.type, words[i])))

\* tokenize of part_000
tokenizeDfa(input) == DfaRun(Split(input), 1, DFA_STATES.START, <<>>)

---------------------------------------------------------------------------
(* The locals of tokenize from call to call                                 *)

\* the locals of a tokenize call that a later call could meet again if they
\* outlived the call: the DFA state of part_000 and the lastIndex of the
\* regex object (in atoms), as they are before the first call
InitLexer == [state |-> DFA_STATES.START, lastIndex |-> 0]

\* the declarations of tokenize hoisted out of the function: a call starts
\* with the values the last call left
HoistedLocals(left) == left

\* the locals as a call of tokenize begins, whatever the last call left in
\* them: each call declares them anew (let state = DFA_STATES.START; const
\* regex = /.../g, a new object whose lastIndex is 0)
FreshLocals(left) == [state |-> DFA_STATES.START, lastIndex |-> 0]

\* a call of tokenize of variant v that begins with the given locals: whether
\* it threw, the tokens it returned, and the locals as it ends (exec has
\* reset lastIndex to 0 when it returned null)
TokenizeFrom(v, locals, input) ==
    IF v = "dfa"
    THEN LET r == DfaRun(Split(input), 1, locals.state, <<>>)
         IN  [threw |-> r.threw, tokens |-> r.tokens,
              left |-> [state |-> r.state, lastIndex |-> 0]]
    ELSE LET m == RegexMatches(input, locals.lastIndex + 1)
         IN  [threw |-> FALSE,
              tokens |-> [k \in 1..Len(m) |->
                            Token(IF v = "mini" THEN TypeMini(m[k])
                                  ELSE TypeBasic(m[k]), m[k])],
              left |-> [state |-> locals.state, lastIndex |-> 0]]

---------------------------------------------------------------------------
(* Validators                                                               *)

\* parseCommand of Mini_Project.js with the test of the first token's value
\* left out of the create/delete branch: any three tokens with the marker
\* file in the middle pass
parseCommandMiniAnyCommand(tokens) ==
    IF Len(tokens) = 0 THEN FALSE
    ELSE IF tokens[1].value = "exit" THEN TRUE
    ELSE IF /\ Len(tokens) = 3
            /\ tokens[2].value = "file"
            /\ tokens[3].type = TOKEN_TYPES.FILENAME
         THEN TRUE
    ELSE FALSE

\* parseCommand of Mini_Project.js
parseCommandMini(tokens) ==
    IF Len(tokens) = 0 THEN FALSE
    ELSE IF tokens[1].value = "exit" THEN TRUE
    ELSE IF /\ tokens[1].value \in {"create", "delete"}
            /\ Len(tokens) = 3
            /\ tokens[2].value = "file"
            /\ tokens[3].type = TOKEN_TYPES.FILENAME
         THEN TRUE
    ELSE IF /\ tokens[1].value \in {"rename", "copy"}
            /\ Len(tokens) = 5
            /\ tokens[2].value = "file"
            /\ tokens[3].type = TOKEN_TYPES.FILENAME
            /\ tokens[4].value = "to"
            /\ tokens[5].type = TOKEN_TYPES.FILENAME
         THEN TRUE
    ELSE FALSE

\* parseCommand of part_001
parseCommandBasic(tokens) ==
    IF Len(tokens) = 0 THEN FALSE
    ELSE IF tokens[1].value = "exit" THEN TRUE
    ELSE IF /\ tokens[1].value \in {"create", "delete"}
            /\ Len(tokens) = 3
            /\ tokens[2].value = "file"
            /\ tokens[3].type = TOKEN_TYPES.FILENAME
         THEN TRUE
    ELSE FALSE

\* PARSING_TABLE of part_000 as the module is loaded
PARSING_TABLE ==
    [Command |->
        [create |-> <<"create", "file", "Filename">>,
         delete |-> <<"delete", "file", "Filename">>,
         copy |-> <<"copy", "file", "Filename", "to", "Filename">>,
         rename |-> <<"rename", "file", "Filename", "to", "Filename">>,
         exit |-> <<"exit">>],
     Filename |-> [FILENAME |-> <<"Word">>],
     Word |-> [FILENAME |-> <<"FILENAME">>]]

\* production.reverse(): reverses the array held by the table, in place
ReverseInPlace(table, top, key) ==
    [table EXCEPT ![top][key] = Reverse(table[top][key])]

RECURSIVE LLRun(_, _, _, _)
\* the while loop of parseCommand of part_000 on the table as it is now;
\* threw is TRUE when it throws, message then holds the pieces of the
\* error's message, and table is the table it leaves behind
LLRun(table, stack, index, tokens) ==
    IF stack = <<>> THEN [threw |-> FALSE, table |-> table, message |-> <<>>]
    ELSE IF index > Len(tokens)
         THEN [threw |-> TRUE, table |-> table,
               message |-> <<"Cannot read properties of undefined (reading 'value')">>]
    ELSE
      LET top == stack[Len(stack)]
          rest == SubSeq(stack, 1, Len(stack) - 1)
          currentToken == tokens[index]
      IN  IF top \in DOMAIN table
          THEN LET row == table[top]
                   byValue == currentToken.value \in DOMAIN row
                   byType == currentToken.type \in DOMAIN row
                   key == IF byValue THEN currentToken.value ELSE currentToken.type
               IN  IF ~(byValue \/ byType)
                   THEN [threw |-> TRUE, table |-> table,
                         message |-> <<"Syntax error: Unexpected token ",
                                       currentToken.value>>]
                   ELSE LET after == ReverseInPlace(table, top, key)
                        IN  LLRun(after, rest \o after[top][key], index, tokens)
          ELSE IF top = currentToken.value \/ top = currentToken.type
               THEN LLRun(table, rest, index + 1, tokens)
               ELSE [threw |-> TRUE, table |-> table,
                     message |-> <<"Syntax error: Expected ", top, ", found ",
                                   currentToken.value>>]

\* parseCommand of part_000
parseCommandDfa(table, tokens) == LLRun(table, <<"Command">>, 1, tokens)

---------------------------------------------------------------------------
(* File operations                                                          *)

NoCall == [fn |-> "none", args |-> <<>>]

\* createFile: fs.writeFile(filename, "", callback)
createFile(filename) == [fn |-> "writeFile", args |-> <<filename>>]

\* deleteFile: fs.unlink(filename, callback)
deleteFile(filename) == [fn |-> "unlink", args |-> <<filename>>]

\* renameFile: fs.rename(oldname, newname, callback)
renameFile(oldname, newname) == [fn |-> "rename", args |-> <<oldname, newname>>]

\* copyFile: fs.copyFile(source, destination, callback)
copyFile(source, destination) == [fn |-> "copyFile", args |-> <<source, destination>>]

\* the fs functions throw a TypeError at once when a path is not a string
FsThrows(call) == \E k \in DOMAIN call.args : call.args[k] = Undefined

---------------------------------------------------------------------------
(* The callback of readline.question                                        *)

\* what a run of the callback does: the position it leaves the session in,
\* the verdict it prints ("valid", "invalid", "error: ..." or none, on the
\* exit line), the parsing table it leaves, the fs call it makes (NoCall
\* when none) and whether that call started an operation
Result(p, verdict, table, call) ==
    [pc |-> p, verdict |-> verdict, table |-> table, call |-> call,
     started |-> call # NoCall /\ ~FsThrows(call)]

\* the execute step of Mini_Project.js (lines 148-159)
ExecuteMini(tokens) ==
    LET command == tokens[1].value
        filename == ValueAt(tokens, 2)
    IN  IF command = "create" THEN createFile(filename)
        ELSE IF command = "delete" THEN deleteFile(filename)
        ELSE IF command = "rename" THEN renameFile(filename, ValueAt(tokens, 4))
        ELSE IF command = "copy" THEN copyFile(filename, ValueAt(tokens, 4))
        ELSE NoCall

\* the execute step of part_001 (lines 101-108)
ExecuteBasic(tokens) ==
    LET command == tokens[1].value
        filename == ValueAt(tokens, 2)
    IN  IF command = "create" THEN createFile(filename)
        ELSE IF command = "delete" THEN deleteFile(filename)
        ELSE NoCall

\* the execute step of part_000 (lines 212-224)
ExecuteDfa(tokens) ==
    LET command == tokens[1].value
        filename == ValueAt(tokens, 2)
        filename2 == ValueAt(tokens, 4)
    IN  IF command = "create" THEN createFile(filename)
        ELSE IF command = "delete" THEN deleteFile(filename)
        ELSE IF command = "copy" THEN copyFile(filename, filename2)
        ELSE IF command = "rename" THEN renameFile(filename, filename2)
        ELSE NoCall

\* the callback of the regex variants with the test of isValid left out: the
\* execute step runs on every line that has a third token
RunRegexUnchecked(tokens, isValid, call, table) ==
    IF Len(tokens) < 3
    THEN Result("crashed", IF isValid THEN "valid" ELSE "invalid", table, NoCall)
    ELSE IF call.fn \in {"rename", "copyFile"} /\ Len(tokens) < 5
         THEN Result("crashed", IF isValid THEN "valid" ELSE "invalid", table, NoCall)
    ELSE Result("prompt", IF isValid THEN "valid" ELSE "invalid", table, call)

\* the callback of Mini_Project.js and of part_001 after the exit test: no
\* try/catch, so reading .value of a missing token ends the process
RunRegex(tokens, isValid, call, table) ==
    IF ~isValid THEN Result("prompt", "invalid", table, NoCall)
    ELSE IF Len(tokens) < 3
         THEN Result("crashed", "valid", table, NoCall)
    ELSE IF call.fn \in {"rename", "copyFile"} /\ Len(tokens) < 5
         THEN Result("crashed", "valid", table, NoCall)
    ELSE IF FsThrows(call) THEN Result("crashed", "valid", table, call)
    ELSE Result("prompt", "valid", table, call)

\* the callback of part_000 after the exit test: everything runs inside
\* try/catch, and the table keeps what parseCommand did to it
RunDfa(input, table) ==
    LET lexed == tokenizeDfa(input)
        parsed == parseCommandDfa(table, lexed.tokens)
        call == ExecuteDfa(lexed.tokens)
    IN  IF lexed.threw THEN Result("prompt", "error", table, NoCall)
        ELSE IF parsed.threw THEN Result("prompt", "error", parsed.table, NoCall)
        ELSE IF FsThrows(call) THEN Result("prompt", "error", parsed.table, call)
        ELSE Result("prompt", "valid", parsed.table, call)

\* a whole run of the callback of variant v on the line input
Outcome(v, table, input) ==
    IF IsExitLine(input) THEN Result("closed", "none", table, NoCall)
    ELSE IF v = "mini"
         THEN LET tokens == tokenizeMini(input)
              IN  RunRegex(tokens, parseCommandMini(tokens), ExecuteMini(tokens), table)
    ELSE IF v = "basic"
         THEN LET tokens == tokenizeBasic(input)
              IN  RunRegex(tokens, parseCommandBasic(tokens), ExecuteBasic(tokens), table)
    ELSE RunDfa(input, table)

---------------------------------------------------------------------------
(* The session                                                              *)

Variants == {"mini", "dfa", "basic"}

Init ==
    /\ variant \in Variants
    /\ pc = "prompt"
    /\ line = <<>>
    /\ parsingTable = PARSING_TABLE
    /\ pending = <<>>
    /\ lexer = InitLexer

\* the lines the user may enter: any line of the input space while no file
\* operation is outstanding, a line of BusyLines otherwise
Inputs == IF pending = <<>> THEN Lines ELSE BusyLines

\* the user enters a line: readline hands it to the callback
Question ==
    /\ pc = "prompt"
    /\ Len(pending) < MaxPending
    /\ \E input \in Inputs : line' = input
    /\ pc' = "callback"
    /\ UNCHANGED <<variant, parsingTable, pending, lexer>>

\* the callback with prompt() moved into the callback of the file operation:
\* after starting an operation the session waits for its completion
CallbackAwaiting ==
    /\ pc = "callback"
    /\ \E r \in {Outcome(variant, parsingTable, line)} :
           /\ pc' = IF r.started THEN "waiting" ELSE r.pc
           /\ parsingTable' = r.table
           /\ pending' = IF r.started THEN Append(pending, r.call) ELSE pending
    /\ line' = <<>>
    /\ UNCHANGED <<variant, lexer>>

\* the callback passed to readline.question runs to its end
Callback ==
    /\ pc = "callback"
    /\ \E r \in {Outcome(variant, parsingTable, line)} :
           /\ pc' = r.pc
           /\ parsingTable' = r.table
           /\ pending' = IF r.started THEN Append(pending, r.call) ELSE pending
    /\ line' = <<>>
    /\ UNCHANGED <<variant, lexer>>

\* the callback of the i-th outstanding file operation runs and prints its
\* message (success or error)
Complete(i) ==
    /\ pc \in {"prompt", "closed"}
    /\ i \in DOMAIN pending
    /\ pending' = SubSeq(pending, 1, i - 1) \o SubSeq(pending, i + 1, Len(pending))
    /\ UNCHANGED <<variant, pc, line, parsingTable, lexer>>

Next ==
    \/ Question
    \/ Callback
    \/ \E i \in DOMAIN pending : Complete(i)

Spec == Init /\ [][Next]_vars

---------------------------------------------------------------------------
(* tokenize on its own                                                      *)

\* tokenize is called on the line handed over (any line, the exit text
\* included: the exit test belongs to the callback); lexer keeps what the
\* call left in its locals
TokenizeCall ==
    /\ pc = "callback"
    /\ \E r \in {TokenizeFrom(variant, FreshLocals(lexer), line)} :
           lexer' = r.left
    /\ pc' = "prompt"
    /\ line' = <<>>
    /\ UNCHANGED <<variant, parsingTable, pending>>

NextTokenize == Question \/ TokenizeCall

\* successive calls of tokenize in one session, on any lines in any order
SpecTokenize == Init /\ [][NextTokenize]_vars

---------------------------------------------------------------------------
(* Vocabulary of the properties                                             *)

RECURSIVE WordAtomsFrom(_, _, _)
\* the whitespace-separated words of a line, each as its atoms
WordAtomsFrom(input, i, cur) ==
    IF i > Len(input) THEN (IF cur = <<>> THEN <<>> ELSE <<cur>>)
    ELSE IF IsSpace(input[i])
         THEN (IF cur = <<>> THEN <<>> ELSE <<cur>>) \o WordAtomsFrom(input, i + 1, <<>>)
         ELSE WordAtomsFrom(input, i + 1, Append(cur, input[i]))

WordAtoms(input) == WordAtomsFrom(input, 1, <<>>)

\* the whitespace-separated words of a line, as texts
Words(input) ==
    LET w == WordAtoms(input) IN [k \in 1..Len(w) |-> Concat(w[k])]

\* the first word of a line ("" when it has none)
FirstWord(input) ==
    LET w == Words(input) IN IF w = <<>> THEN "" ELSE w[1]

Keywords == {"create", "delete", "exit", "copy", "rename"}

\* the kind the classification rule gives a text: Keyword, Connector, Filename
KindOf(text) ==
    IF text \in Keywords THEN TOKEN_TYPES.KEYWORD
    ELSE IF text = "to" THEN TOKEN_TYPES.TO
    ELSE TOKEN_TYPES.FILENAME

\* tokenize of variant v raises an error on the line
TokenizeThrows(v, input) == v = "dfa" /\ tokenizeDfa(input).threw

\* the tokens tokenize of variant v returns for the line (none when it throws)
Tokens(v, input) ==
    IF v = "mini" THEN tokenizeMini(input)
    ELSE IF v = "basic" THEN tokenizeBasic(input)
    ELSE tokenizeDfa(input).tokens

\* tokenize followed by parseCommand accepts the line: parseCommand returns
\* true (and neither of the two throws)
Accepts(v, table, input) ==
    IF v = "mini" THEN parseCommandMini(tokenizeMini(input))
    ELSE IF v = "basic" THEN parseCommandBasic(tokenizeBasic(input))
    ELSE /\ ~tokenizeDfa(input).threw
         /\ ~parseCommandDfa(table, tokenizeDfa(input).tokens).threw

\* what the callback prints as the reason when it rejects the line ("" when
\* it accepts it): the one fixed text of the regex variants, the message of
\* the caught error in part_000
Reason(v, table, input) ==
    IF Accepts(v, table, input) THEN ""
    ELSE IF v \in {"mini", "basic"} THEN "Syntax Analysis: Invalid command"
    ELSE LET lexed == tokenizeDfa(input)
         IN  "Error: " \o Concat(IF lexed.threw THEN lexed.message
                                 ELSE parseCommandDfa(table, lexed.tokens).message)

\* every whitespace-separated word of the line is a name or a name.ext: on
\* such a line "word" has one meaning, whether words are read as separated
\* by whitespace or as the matches of the splitting rule \w+(\.\w+)?
WellSeparated(input) ==
    LET w == WordAtoms(input)
    IN  \A k \in DOMAIN w :
            \/ Len(w[k]) = 1 /\ IsWordRun(w[k][1])
            \/ Len(w[k]) = 3 /\ IsWordRun(w[k][1]) /\ w[k][2] = Dot /\ IsWordRun(w[k][3])

\* a line has been handed to the callback, which has not run yet
AtLine == pc = "callback"

\* a line of unambiguous words has been handed to the callback and is not
\* the session-ending exit line, so tokenize and parseCommand run on it
AtCommandLine == AtLine /\ WellSeparated(line) /\ ~IsExitLine(line)

---------------------------------------------------------------------------
(* Properties                                                                 *)

\* C1: parseCommand is stateless: whatever calls were made earlier in the
\* session, the tokens of a line get the verdict they get as the first
\* call of a fresh session, the verdict the table as loaded gives.
C1_ParseStateless ==
    AtLine =>
        (Accepts(variant, parsingTable, line)
            <=> Accepts(variant, PARSING_TABLE, line))

\* C2: a per-command failure never ends the session: the callback run on
\* any line but the session-ending exit line prints a verdict and leaves the
\* session at the next prompt; no exception leaves the callback uncaught.
C2_SessionSurvives ==
    [][(AtLine /\ ~IsExitLine(line)) =>
          /\ pc' = "prompt"
          /\ Outcome(variant, parsingTable, line).verdict
                 \in {"valid", "invalid", "error"}]_vars

\* C3: a line whose first word is create or delete is accepted if and only
\* if it has exactly three words: the keyword, the word file, and a third
\* word that is neither one of the five keywords nor the connector to.
C3_CreateDeleteShape ==
    (AtCommandLine /\ FirstWord(line) \in {"create", "delete"}) =>
        LET w == Words(line)
        IN  Accepts(variant, parsingTable, line)
              <=> (Len(w) = 3 /\ w[2] = "file" /\ w[3] \notin Keywords \cup {"to"})

\* C4: in the variants that know copy and rename, a line whose first word
\* is copy or rename is accepted if and only if it has exactly five words:
\* the keyword, the word file, a Filename, the connector to, a Filename.
C4_CopyRenameShape ==
    (AtCommandLine /\ variant \in {"mini", "dfa"}
        /\ FirstWord(line) \in {"copy", "rename"}) =>
        LET w == Words(line)
        IN  Accepts(variant, parsingTable, line)
              <=> /\ Len(w) = 5
                  /\ w[2] = "file"
                  /\ KindOf(w[3]) = TOKEN_TYPES.FILENAME
                  /\ w[4] = "to"
                  /\ KindOf(w[5]) = TOKEN_TYPES.FILENAME

\* C5: whenever the first word of the line is exit, tokenize followed by
\* parseCommand returns valid, whatever words follow, and the command has no
\* operand: no file operation is called for it.
C5_ExitAlwaysValid ==
    (AtCommandLine /\ FirstWord(line) = "exit") =>
        /\ Accepts(variant, parsingTable, line)
        /\ Outcome(variant, parsingTable, line).call = NoCall

\* C6: tokenize never raises an error, whatever the line.
C6_TokenizeNeverThrows ==
    AtLine => ~TokenizeThrows(variant, line)

\* C7: the kind of a token depends only on its text: the five keywords are
\* Keyword, to is Connector, every other text (file included) is Filename.
C7_KindByTextOnly ==
    (AtLine /\ variant \in {"mini", "dfa"}) =>
        LET t == Tokens(variant, line)
        IN  \A k \in DOMAIN t :
                t[k].type # TOKEN_TYPES.EOF => t[k].type = KindOf(t[k].value)

\* C8: the sequence tokenize returns ends with an EndOfInput token of empty
\* text, the only EndOfInput token of the sequence.
C8_EndsWithEndOfInput ==
    (AtLine /\ variant \in {"mini", "dfa"} /\ ~TokenizeThrows(variant, line)) =>
        LET t == Tokens(variant, line)
        IN  /\ Len(t) >= 1
            /\ t[Len(t)] = Token(TOKEN_TYPES.EOF, "")
            /\ \A k \in 1..(Len(t) - 1) : t[k].type # TOKEN_TYPES.EOF

\* the tokens of a sequence that are no EndOfInput marker
WordTokens(t) == SelectSeq(t, LAMBDA x : x.type # TOKEN_TYPES.EOF)

\* C9: the tokens before the end marker are, in order, one per
\* whitespace-separated word of the line, each with the word's exact text.
C9_OneTokenPerWord ==
    (AtLine /\ variant \in {"mini", "dfa"} /\ ~TokenizeThrows(variant, line)) =>
        LET t == WordTokens(Tokens(variant, line))
            w == Words(line)
        IN  /\ Len(t) = Len(w)
            /\ \A k \in DOMAIN t : t[k].value = w[k]

\* the number of operands of the shape of a command
OperandCount(kind) ==
    IF kind \in {"create", "delete"} THEN 1
    ELSE IF kind \in {"copy", "rename"} THEN 2
    ELSE 0

\* C10: for every accepted command the operand count matches its shape and
\* the file operation is called with exactly those operands in order:
\* operand 0 is the third word of the line, operand 1 the fifth; no operand
\* is missing (undefined).
C10_OperandsAreWords ==
    AtCommandLine =>
        LET r == Outcome(variant, parsingTable, line)
            w == Words(line)
        IN  (r.verdict = "valid" /\ r.call # NoCall) =>
                /\ Len(r.call.args) = OperandCount(w[1])
                /\ \A k \in DOMAIN r.call.args : r.call.args[k] # Undefined
                /\ Len(w) >= 3 /\ r.call.args[1] = w[3]
                /\ Len(r.call.args) = 2 => (Len(w) >= 5 /\ r.call.args[2] = w[5])

Cause(input) ==
    LET w == Words(input)
    IN  IF FirstWord(input) \notin Keywords THEN "command"
        ELSE IF w[1] = "exit" THEN "none"
        ELSE IF Len(w) < 2 \/ w[2] # "file" THEN "marker"
        ELSE IF /\ w[1] \in {"copy", "rename"}
                /\ Len(w) >= 3
                /\ KindOf(w[3]) = TOKEN_TYPES.FILENAME
                /\ (Len(w) < 4 \/ w[4] # "to")
             THEN "connector"
        ELSE "none"

\* one line of each cause: 'launch file a.txt', 'create a.txt', 'copy' and
\* 'copy file a.txt file a.txt'
CauseProbes ==
    { <<"launch", Space, "file", Space, "a", ".", "txt">>,
      <<"create", Space, "a", ".", "txt">>,
      <<"copy">>,
      <<"copy", Space, "file", Space, "a", ".", "txt", Space, "file", Space,
        "a", ".", "txt">> }

\* C12: every rejection carries a reason that tells its cause: a line with
\* an unknown first word, a line without the file marker and a copy/rename
\* line without the connector to are all rejected, and in the same session
\* state the reasons printed for two lines of different causes differ.
C12_ReasonsTellCauses ==
    (AtCommandLine /\ Cause(line) # "none") =>
        /\ ~Accepts(variant, parsingTable, line)
        /\ \A probe \in CauseProbes :
               Cause(probe) # Cause(line) =>
                   Reason(variant, parsingTable, probe)
                       # Reason(variant, parsingTable, line)

Observed(v, table, input) ==
    IF Accepts(v, table, input)
    THEN [accepted |-> TRUE, operands |-> Outcome(v, table, input).call.args]
    ELSE [accepted |-> FALSE, operands |-> <<>>]

\* C14: the variants agree on the shapes they share: on a line whose first
\* word is create or delete, part_001, Mini_Project.js and part_000 give the
\* same verdict and the same operand; on a line whose first word is copy or
\* rename, Mini_Project.js and part_000 give the same verdict and operands.
C14_VariantsAgree ==
    AtCommandLine =>
        /\ FirstWord(line) \in {"create", "delete"} =>
              /\ Observed("basic", parsingTable, line)
                     = Observed("mini", parsingTable, line)
              /\ Observed("mini", parsingTable, line)
                     = Observed("dfa", parsingTable, line)
        /\ FirstWord(line) \in {"copy", "rename"} =>
              Observed("mini", parsingTable, line)
                  = Observed("dfa", parsingTable, line)

\* the fs function the callback calls for a command word
FsFunctionOf(word) ==
    IF word = "create" THEN "writeFile"
    ELSE IF word = "delete" THEN "unlink"
    ELSE IF word = "copy" THEN "copyFile"
    ELSE IF word = "rename" THEN "rename"
    ELSE "none"

\* the first word of a line as variant v splits it: the text of the first
\* token ("" when tokenize returns none)
CommandWord(v, input) ==
    LET t == Tokens(v, input) IN IF t = <<>> THEN "" ELSE t[1].value

\* C15: a run of the callback starts a file operation only for a line the
\* validator accepted, and then exactly one, of the kind the first word
\* names (create writeFile, delete unlink, copy copyFile, rename rename); a
\* rejected line, a line on which tokenize or parseCommand threw and an
\* accepted exit line start none.
C15_OneOperationPerAcceptedLine ==
    [][AtLine =>
          LET word == CommandWord(variant, line)
              r == Outcome(variant, parsingTable, line)
          IN  IF Accepts(variant, parsingTable, line) /\ word # "exit"
              THEN /\ pending' = Append(pending, r.call)
                   /\ r.call.fn = FsFunctionOf(word)
                   /\ r.call.fn # "none"
                   /\ WellSeparated(line) => word = FirstWord(line)
              ELSE pending' = pending]_vars

\* C15, witness: part_000 has started the one copyFile of an accepted copy
\* line and is back at the prompt
C15_Witness ==
    /\ pc = "prompt"
    /\ variant = "dfa"
    /\ pending = <<copyFile("a.txt", "a.txt")>>

\* C16: a line ends the session if and only if it is exit after trimming
\* and lower-casing; on such a line the interface is closed and nothing
\* else happens (no table is touched, no file operation started), on any
\* other line the next prompt is issued; and once the session has ended no
\* line is read, tokenized or validated and no file operation is started.
C16_ExitLineAloneEndsSession ==
    [][(AtLine =>
           IF IsExitLine(line)
           THEN /\ pc' = "closed"
                /\ parsingTable' = parsingTable
                /\ pending' = pending
           ELSE pc' = "prompt")
       /\
       (pc \notin {"prompt", "callback"} =>
           /\ pc' = pc
           /\ line' = line
           /\ parsingTable' = parsingTable
           /\ Len(pending') <= Len(pending))]_vars

\* C17: the run of the callback that starts a file operation issues the
\* next prompt itself, with the operation still outstanding; a line is
\* accepted only at a prompt, when no line is being tokenized or validated;
\* and at a prompt with operations outstanding the completion callback of
\* any of them can run next, in whatever order they were started, and so
\* can the reading of a further line.
C17_PromptDoesNotAwaitCompletion ==
    /\ [][(AtLine /\ Outcome(variant, parsingTable, line).started) =>
              /\ pc' = "prompt"
              /\ pending'
                    = Append(pending, Outcome(variant, parsingTable, line).call)]_vars
    /\ [][(line' # line /\ line' # <<>>) =>
              (pc = "prompt" /\ line = <<>> /\ pc' = "callback")]_vars
    /\ []((pc = "prompt" /\ pending # <<>>) =>
              /\ \A i \in DOMAIN pending : ENABLED Complete(i)
              /\ Len(pending) < MaxPending => ENABLED Question)

\* C17, witness: the operations of two consecutive accepted commands are
\* outstanding at a prompt, and either completion callback can run
C17_Witness ==
    /\ pc = "prompt"
    /\ Len(pending) = 2
    /\ pending[1].fn = "writeFile"
    /\ pending[2].fn = "unlink"
    /\ ENABLED Complete(1)
    /\ ENABLED Complete(2)

====
